---- MODULE Spec2Model ----
(***************************************************************************)
(* State-machine model of detlab/logcryo.py: the per-device guards         *)
(* (mutex_press, mutex_temp), the collectors (get_tpg, get_temps,          *)
(* sen_onoff, sen_stat, get_press), the retry cycles (logpress, logtemp),  *)
(* the Job scheduler thread and the main thread with its signal handler.   *)
(*                                                                         *)
(* Four specifications share the variables:                                *)
(*   SpecGuard  concurrent callers of the collectors;                      *)
(*   SpecRetry  logpress / logtemp cycles run against a contending caller; *)
(*   SpecJob    the program as main starts it: two Jobs and the main       *)
(*              thread with its shutdown signal;                           *)
(*   SpecWire   one caller, the exchanges of logcryo and of                *)
(*              cryopress.read_pressure at the level of the received text. *)
(***************************************************************************)
EXTENDS Integers, Sequences, FiniteSets, TLC

\* ---------------------------------------------------------------- bounds
NumCallers == 2          \* concurrent callers of the collector functions
NumChans   == 2          \* configured channels per device class
MaxCycles  == 2          \* task executions of one Job that are explored

\* ------------------------------------------------------ program constants
MAX_RETRIES == 3

\* --------------------------------------------------------------- entities
CallerName == <<"c1", "c2", "c3", "c4">>
Callers    == {CallerName[i] : i \in 1..NumCallers}
Workers    == {"tw", "pw"}
Threads    == Callers \cup Workers
Devs       == {"press", "temp"}

PressFns   == {"get_tpg", "sen_onoff", "sen_stat", "get_press"}
Collectors == PressFns \cup {"get_temps"}

\* pressnumchans: size of the pressure controller; presschans: the gauges in use
pressnumchans == NumChans + 1
presschans    == 1..NumChans

\* one guard for both device classes
DevShared(f) == "press"

\* get_temps uses mutex_temp, the pressure functions use mutex_press
Dev(f) == IF f = "get_temps" THEN "temp" ELSE "press"

VARIABLES
    mutex,        \* [Devs -> "free" or the thread whose acquire() locked it]
    cpc,          \* [Threads -> position inside the collector call, "none" outside]
    fn,           \* [Threads -> collector being executed]
    ret,          \* [Threads -> value the call returns: "OK" (a reading list),
                  \*             "BSY", "ERR", or "EXC" (an exception left the call)]
    acq,          \* [Threads -> result of mutex.acquire() in this call: "na", "T", "F"]
    sock,         \* [Threads -> socket of this call: "none", "open", "closed"]
    ichan,        \* [Threads -> index of the channel being read]
    wire,         \* [Threads -> what this call has sent since its last command began]
    retlist,      \* [Threads -> the list built by this call]
    lpc,          \* [Workers -> position inside logpress / logtemp, "none" outside]
    retry_count,  \* [Workers -> retry_count of the running cycle]
    trace,        \* [Workers -> what the running cycle has done, in order]
    jpc,          \* [Workers -> state of the Job thread]
    stopped,      \* [Workers -> Job.stopped Event flag]
    execs,        \* [Workers -> task executions begun by the Job]
    waits,        \* [Workers -> interval waits that timed out]
    startRet,     \* [Workers -> executions ended when start() returned, -1 before that]
    stopRet,      \* [Workers -> stop() has returned]
    mpc,          \* position of the main thread
    cfg,          \* the enabled device classes: [logtemps, logpress]
    rbuf,         \* the variable of the running read loop: the chunk kept by
                  \* read_tpg / get_reply (ret, reply), the list datl of get_temps
    rx,           \* all the text received since the running read loop began
    eof,          \* the peer has closed the connection: recv returns ''
    arg,          \* the arguments <<chan, onoff>> of the sen_onoff call
    influx        \* the points <<channel, pressure>> the running call has
                  \* written to InfluxDB

colVars  == <<cpc, fn, ret, acq, sock, ichan, wire, retlist>>
cycVars  == <<lpc, retry_count, trace>>
jobVars  == <<jpc, stopped, execs, waits, startRet, stopRet>>
mainVars == <<mpc, cfg>>
ioVars   == <<rbuf, rx, eof, arg, influx>>
vars     == <<mutex, cpc, fn, ret, acq, sock, ichan, wire, retlist,
              lpc, retry_count, trace, jpc, stopped, execs, waits,
              startRet, stopRet, mpc, cfg, rbuf, rx, eof, arg, influx>>

\* ------------------------------------------------------------------ guard
\* threading.Lock: locked(), acquire(blocking=True, timeout), release()
locked(d) == mutex[d] # "free"

\* release() of a locked Lock unlocks it whoever locked it; of an unlocked
\* Lock it raises RuntimeError
ReleaseRaises(d) == ~locked(d)

Released(d) == [mutex EXCEPT ![d] = "free"]

\* ------------------------------------------------------------- collectors
\* a call enters function f with fresh locals and goes to position first
\* (r: the value returned, when first is the return itself)
Enter(t, f, first, r) ==
    /\ fn'      = [fn EXCEPT ![t] = f]
    /\ cpc'     = [cpc EXCEPT ![t] = first]
    /\ ret'     = [ret EXCEPT ![t] = r]
    /\ acq'     = [acq EXCEPT ![t] = "na"]
    /\ sock'    = [sock EXCEPT ![t] = "none"]
    /\ ichan'   = [ichan EXCEPT ![t] = 0]
    /\ wire'    = [wire EXCEPT ![t] = <<>>]
    /\ retlist' = [retlist EXCEPT ![t] = <<>>]

\* the statement "return v"
Return(t, v) ==
    /\ cpc' = [cpc EXCEPT ![t] = "ret"]
    /\ ret' = [ret EXCEPT ![t] = v]

\* the exit sequence "sock.close(); mutex.release(); return v" is pending
Finish(t, v) ==
    /\ cpc' = [cpc EXCEPT ![t] = "fin"]
    /\ ret' = [ret EXCEPT ![t] = v]

\* if mutex.locked(): return 'BSY'
Probe(t) ==
    /\ cpc[t] = "probe"
    /\ IF locked(Dev(fn[t]))
         THEN Return(t, "BSY")
         ELSE cpc' = [cpc EXCEPT ![t] = "acquire"] /\ ret' = ret
    /\ UNCHANGED <<mutex, fn, acq, sock, ichan, wire, retlist>>
    /\ UNCHANGED <<cycVars, jobVars, mainVars, ioVars>>

\* mutex.acquire( blocking=True, timeout=MUTEX_TIMEOUT ): the lock is taken
\* when it is free; while it stays locked the wait ends after the timeout
\* with False.  The returned value is not looked at.
Acquire(t) ==
    /\ cpc[t] = "acquire"
    /\ IF ~locked(Dev(fn[t]))
         THEN /\ mutex' = [mutex EXCEPT ![Dev(fn[t])] = t]
              /\ acq'   = [acq EXCEPT ![t] = "T"]
         ELSE /\ mutex' = mutex
              /\ acq'   = [acq EXCEPT ![t] = "F"]
    /\ cpc' = [cpc EXCEPT ![t] = "open"]
    /\ UNCHANGED <<fn, ret, sock, ichan, wire, retlist>>
    /\ UNCHANGED <<cycVars, jobVars, mainVars, ioVars>>

\* outcomes of open_socket(): a connected socket, False when no address
\* connects, or the exception of getaddrinfo, which open_socket does not catch
OpenOutcomes == {"ok", "fail", "raise"}

\* sock = open_socket(...); if not sock: mutex.release(); return 'ERR'
OpenSocket(t) ==
    /\ cpc[t] = "open"
    /\ \E o \in OpenOutcomes :
         \/ /\ o = "ok"
            /\ sock'    = [sock EXCEPT ![t] = "open"]
            /\ retlist' = [retlist EXCEPT ![t] = <<"ts">>]
            /\ ichan'   = [ichan EXCEPT ![t] = 1]
            /\ cpc'     = [cpc EXCEPT ![t] =
                              IF fn[t] = "get_temps" THEN "tsend" ELSE "send"]
            /\ ret' = ret
         \/ /\ o = "fail"
            /\ Finish(t, "ERR")
            /\ UNCHANGED <<sock, retlist, ichan>>
         \/ /\ o = "raise"
            /\ Return(t, "EXC")
            /\ UNCHANGED <<sock, retlist, ichan>>
    /\ UNCHANGED <<mutex, fn, acq, wire>>
    /\ UNCHANGED <<cycVars, jobVars, mainVars, ioVars>>

\* the command of the pressure exchange: 'PR<chan>', 'SEN' or 'SEN,<c1>..<cN>'
Command(f) == IF f = "get_tpg" THEN "PR" ELSE "SEN"

\* sock.sendall( cmd ) inside the try block
SendCmd(t) ==
    /\ cpc[t] = "send"
    /\ \E o \in {"ok", "raise"} :
         \/ /\ o = "ok"
            /\ wire' = [wire EXCEPT ![t] = <<Command(fn[t])>>]
            /\ cpc'  = [cpc EXCEPT ![t] = "read1"]
            /\ ret'  = ret
         \/ /\ o = "raise"
            /\ Finish(t, "ERR")
            /\ wire' = wire
    /\ UNCHANGED <<mutex, fn, acq, sock, ichan, retlist>>
    /\ UNCHANGED <<cycVars, jobVars, mainVars, ioVars>>

\* the loop of a read goes on for ever: the peer has closed the connection,
\* recv returns '' at once every time and no iteration ends the loop
Spin(t) ==
    /\ cpc' = [cpc EXCEPT ![t] = "spin"]
    /\ ret' = ret

\* what read_tpg() hands back: the ACK bytes, other bytes ending in LF,
\* None after the select timeout, or an exception of recv; "eof": the peer
\* has closed and read_tpg does not return
FirstReplies == {"ACK", "NAK", "None", "raise", "eof"}

\* ret = read_tpg( sock ); if ret == ACK: sock.sendall( ENQ ) else: ...
ReadAck(t) ==
    /\ cpc[t] = "read1"
    /\ \E r \in FirstReplies :
         \/ /\ r = "ACK"
            /\ wire' = [wire EXCEPT ![t] = Append(@, "ENQ")]
            /\ cpc'  = [cpc EXCEPT ![t] = "read2"]
            /\ ret'  = ret
         \/ /\ r \in {"NAK", "None"}
            /\ wire' = wire
            /\ CASE fn[t] = "get_tpg"   -> cpc' = [cpc EXCEPT ![t] = "read2"]
                                           /\ ret' = ret
                 [] fn[t] = "sen_onoff" -> Finish(t, "ERR")
                 [] fn[t] = "sen_stat"  -> Return(t, "ERR")
         \/ /\ r = "raise"
            /\ wire' = wire
            /\ Finish(t, "ERR")
         \/ /\ r = "eof"
            /\ wire' = wire
            /\ Spin(t)
    /\ UNCHANGED <<mutex, fn, acq, sock, ichan, retlist>>
    /\ UNCHANGED <<cycVars, jobVars, mainVars, ioVars>>

\* the second reply: a line that parses, a line that does not (missing
\* field, not a number), or None after the select timeout (None.decode raises);
\* in get_tpg the InfluxDB write of the value may raise as well.  "val" in
\* retlist stands for what one parsed reply appends (the pressure of the
\* channel; for SEN the status of every gauge)
SecondReplies == {"good", "bad", "None", "eof"}

LastChan(t) == fn[t] \in {"sen_onoff", "sen_stat"} \/ ichan[t] = NumChans

\* ret = read_tpg( sock ); ans = ret.decode().split(','); retlist.append(...)
ReadData(t) ==
    /\ cpc[t] = "read2"
    /\ \E r \in SecondReplies :
         \/ /\ r = "good"
            /\ retlist' = [retlist EXCEPT ![t] = Append(@, "val")]
            /\ IF LastChan(t)
                 THEN Finish(t, "OK") /\ ichan' = ichan
                 ELSE /\ ichan' = [ichan EXCEPT ![t] = @ + 1]
                      /\ cpc'   = [cpc EXCEPT ![t] = "send"]
                      /\ ret'   = ret
         \/ /\ r \in {"bad", "None"}
            /\ Finish(t, "ERR")
            /\ UNCHANGED <<retlist, ichan>>
         \/ /\ r = "eof"
            /\ Spin(t)
            /\ UNCHANGED <<retlist, ichan>>
    /\ UNCHANGED <<mutex, fn, acq, sock, wire>>
    /\ UNCHANGED <<cycVars, jobVars, mainVars, ioVars>>

\* sock.sendall( message.encode() ) of get_temps, inside the per-channel try
TempSend(t) ==
    /\ cpc[t] = "tsend"
    /\ \E o \in {"ok", "raise"} :
         \/ /\ o = "ok"
            /\ wire' = [wire EXCEPT ![t] = <<"QRY">>]
            /\ cpc'  = [cpc EXCEPT ![t] = "tread"]
            /\ UNCHANGED <<ret, retlist>>
         \/ /\ o = "raise"
            /\ retlist' = [retlist EXCEPT ![t] = Append(@, "nan")]
            /\ Finish(t, "ERR")
            /\ wire' = wire
    /\ UNCHANGED <<mutex, fn, acq, sock, ichan>>
    /\ UNCHANGED <<cycVars, jobVars, mainVars, ioVars>>

\* the receive loop of get_temps for one channel: a reply that parses as a
\* float, a chunk with 'Selected hunt group busy', or an exception (float()
\* of the text fails, recv times out); "eof": the peer has closed and the
\* loop does not end
TempReplies == {"good", "busy", "bad", "eof"}

TempRead(t) ==
    /\ cpc[t] = "tread"
    /\ \E r \in TempReplies :
         \/ /\ r = "good"
            /\ retlist' = [retlist EXCEPT ![t] = Append(@, "val")]
            /\ IF ichan[t] = NumChans
                 THEN Finish(t, "OK") /\ ichan' = ichan
                 ELSE /\ ichan' = [ichan EXCEPT ![t] = @ + 1]
                      /\ cpc'   = [cpc EXCEPT ![t] = "tsend"]
                      /\ ret'   = ret
         \/ /\ r = "busy"
            /\ Finish(t, "BSY")
            /\ UNCHANGED <<retlist, ichan>>
         \/ /\ r = "bad"
            /\ retlist' = [retlist EXCEPT ![t] = Append(@, "nan")]
            /\ Finish(t, "ERR")
            /\ ichan' = ichan
         \/ /\ r = "eof"
            /\ Spin(t)
            /\ UNCHANGED <<retlist, ichan>>
    /\ UNCHANGED <<mutex, fn, acq, sock, wire>>
    /\ UNCHANGED <<cycVars, jobVars, mainVars, ioVars>>

\* sock.close(); mutex.release(); return ...   (no socket exists after a
\* failed open_socket).  A RuntimeError of release() leaves the function.
CloseRelease(t) ==
    /\ cpc[t] = "fin"
    /\ sock' = [sock EXCEPT ![t] = IF @ = "open" THEN "closed" ELSE @]
    /\ IF ReleaseRaises(Dev(fn[t]))
         THEN Return(t, "EXC") /\ mutex' = mutex
         ELSE Return(t, ret[t]) /\ mutex' = Released(Dev(fn[t]))
    /\ UNCHANGED <<fn, acq, ichan, wire, retlist>>
    /\ UNCHANGED <<cycVars, jobVars, mainVars, ioVars>>

\* get_press: mutex_press.acquire() waits without a timeout
GpAcquire(t) ==
    /\ cpc[t] = "gp_acquire"
    /\ ~locked("press")
    /\ mutex' = [mutex EXCEPT !["press"] = t]
    /\ acq'   = [acq EXCEPT ![t] = "T"]
    /\ cpc'   = [cpc EXCEPT ![t] = "gp_open"]
    /\ UNCHANGED <<fn, ret, sock, ichan, wire, retlist>>
    /\ UNCHANGED <<cycVars, jobVars, mainVars, ioVars>>

\* get_press: sock = open_socket(...); if not sock: return 'ERR'
GpOpen(t) ==
    /\ cpc[t] = "gp_open"
    /\ \E o \in OpenOutcomes :
         \/ /\ o = "ok"
            /\ sock' = [sock EXCEPT ![t] = "open"]
            /\ cpc'  = [cpc EXCEPT ![t] = "gp_send"]
            /\ ret'  = ret
         \/ /\ o = "fail"
            /\ Return(t, "ERR")
            /\ sock' = sock
         \/ /\ o = "raise"
            /\ Return(t, "EXC")
            /\ sock' = sock
    /\ UNCHANGED <<mutex, fn, acq, ichan, wire, retlist>>
    /\ UNCHANGED <<cycVars, jobVars, mainVars, ioVars>>

\* get_press: sock.sendall(b'#01RD\r'), outside any try
GpSend(t) ==
    /\ cpc[t] = "gp_send"
    /\ \E o \in {"ok", "raise"} :
         \/ /\ o = "ok"
            /\ wire' = [wire EXCEPT ![t] = <<"RD">>]
            /\ cpc'  = [cpc EXCEPT ![t] = "gp_read"]
            /\ ret'  = ret
         \/ /\ o = "raise"
            /\ Return(t, "EXC")
            /\ wire' = wire
    /\ UNCHANGED <<mutex, fn, acq, sock, ichan, retlist>>
    /\ UNCHANGED <<cycVars, jobVars, mainVars, ioVars>>

\* get_press: the read loop, float(reply[3:12]), mutex_press.release(), return data
GpRead(t) ==
    /\ cpc[t] = "gp_read"
    /\ \E r \in {"good", "timeout", "bad", "eof"} :
         \/ /\ r = "good"
            /\ retlist' = [retlist EXCEPT ![t] = <<"ts", "val">>]
            /\ IF ReleaseRaises("press")
                 THEN Return(t, "EXC") /\ mutex' = mutex
                 ELSE Return(t, "OK") /\ mutex' = Released("press")
         \/ /\ r = "timeout"
            /\ Return(t, "ERR")
            /\ UNCHANGED <<mutex, retlist>>
         \/ /\ r = "bad"
            /\ Return(t, "EXC")
            /\ UNCHANGED <<mutex, retlist>>
         \/ /\ r = "eof"
            /\ Spin(t)
            /\ UNCHANGED <<mutex, retlist>>
    /\ UNCHANGED <<fn, acq, sock, ichan, wire>>
    /\ UNCHANGED <<cycVars, jobVars, mainVars, ioVars>>

\* a step of get_tpg, get_temps, sen_onoff or sen_stat
GuardedStep(t) ==
    \/ Probe(t)
    \/ Acquire(t)
    \/ OpenSocket(t)
    \/ SendCmd(t)
    \/ ReadAck(t)
    \/ ReadData(t)
    \/ TempSend(t)
    \/ TempRead(t)
    \/ CloseRelease(t)

\* a step of get_press
GetPressStep(t) ==
    \/ GpAcquire(t)
    \/ GpOpen(t)
    \/ GpSend(t)
    \/ GpRead(t)

CollectorStep(t) == GuardedStep(t) \/ GetPressStep(t)

\* ---------------------------------------------------------------- callers
\* a thread calls one of the collector functions of the module
CallPlain(t, f) ==
    /\ cpc[t] = "none"
    /\ f \in {"get_tpg", "sen_stat", "get_temps"}
    /\ Enter(t, f, "probe", "NONE")
    /\ UNCHANGED mutex
    /\ UNCHANGED <<cycVars, jobVars, mainVars, ioVars>>

\* sen_onoff(chan, onoff): "if chan in hconfig['presschans']: return 'ERR'"
CallSenOnoff(t, chan) ==
    /\ cpc[t] = "none"
    /\ IF chan \in presschans
         THEN Enter(t, "sen_onoff", "ret", "ERR")
         ELSE Enter(t, "sen_onoff", "probe", "NONE")
    /\ UNCHANGED mutex
    /\ UNCHANGED <<cycVars, jobVars, mainVars, ioVars>>

CallGetPress(t) ==
    /\ cpc[t] = "none"
    /\ Enter(t, "get_press", "gp_acquire", "NONE")
    /\ UNCHANGED mutex
    /\ UNCHANGED <<cycVars, jobVars, mainVars, ioVars>>

\* the caller takes the returned value; the locals of the call are gone
CallerReturn(t) ==
    /\ cpc[t] = "ret"
    /\ Enter(t, "get_tpg", "none", "NONE")
    /\ UNCHANGED mutex
    /\ UNCHANGED <<cycVars, jobVars, mainVars, ioVars>>

CallerStep(t) ==
    \/ \E f \in Collectors : CallPlain(t, f)
    \/ \E chan \in 1..pressnumchans : CallSenOnoff(t, chan)
    \/ CallGetPress(t)
    \/ CallerReturn(t)

\* ----------------------------------------------------- logpress / logtemp
\* worker "pw" runs logpress (get_tpg), worker "tw" runs logtemp (get_temps)
CollectorOf(w) == IF w = "pw" THEN "get_tpg" ELSE "get_temps"

\* a cycle that goes on to the collector although check_files returned False
CheckFilesGoesOn(w) ==
    /\ lpc[w] = "chk"
    /\ \E ok \in BOOLEAN :
         /\ retry_count' = [retry_count EXCEPT ![w] = 0]
         /\ lpc'   = [lpc EXCEPT ![w] = "loop"]
         /\ trace' = IF ok THEN trace ELSE [trace EXCEPT ![w] = Append(@, "abandon")]
    /\ UNCHANGED <<mutex, colVars, jobVars, mainVars, ioVars>>

\* if not check_files( save_path, **config ): return
CheckFiles(w) ==
    /\ lpc[w] = "chk"
    /\ \E ok \in BOOLEAN :
         IF ok
           THEN /\ retry_count' = [retry_count EXCEPT ![w] = 0]
                /\ lpc'   = [lpc EXCEPT ![w] = "loop"]
                /\ trace' = trace
           ELSE /\ lpc'   = [lpc EXCEPT ![w] = "end"]
                /\ trace' = [trace EXCEPT ![w] = Append(@, "abandon")]
                /\ retry_count' = retry_count
    /\ UNCHANGED <<mutex, colVars, jobVars, mainVars, ioVars>>

\* while retry_count < MAX_RETRIES:
KeepTrying(rc) == rc < MAX_RETRIES

\* tpgpress = get_tpg( **pconfig )    (after the loop: print "exiting", return)
CallCollector(w) ==
    /\ lpc[w] = "loop"
    /\ IF KeepTrying(retry_count[w])
         THEN /\ Enter(w, CollectorOf(w), "probe", "NONE")
              /\ lpc'   = [lpc EXCEPT ![w] = "call"]
              /\ trace' = trace
         ELSE /\ lpc'   = [lpc EXCEPT ![w] = "end"]
              /\ trace' = [trace EXCEPT ![w] = Append(@, "exit")]
              /\ UNCHANGED colVars
    /\ UNCHANGED <<mutex, retry_count, jobVars, mainVars, ioVars>>

BranchRetryOnErr(r) ==
    CASE r = "EXC"  -> "raise"
      [] r = "None" -> "break"
      [] r = "ERR"  -> "retry"
      [] r = "OK"   -> "log"
      [] r = "BSY"  -> "retry"

\* the branch taken on the value the collector returned:
\*   if tpgpress is None: break;  if tpgpress == 'ERR': break;
\*   if tpgpress != 'BSY': try: ...log...;  otherwise the backoff below;
\* an exception of the collector leaves the function
Branch(r) ==
    CASE r = "EXC"  -> "raise"
      [] r = "None" -> "break"
      [] r = "ERR"  -> "break"
      [] r = "OK"   -> "log"
      [] r = "BSY"  -> "retry"

\* a backoff that sleeps after every busy invocation
SleepAlways(rc) == TRUE

SleepAfterLast(rc) == rc <= MAX_RETRIES

\* retry_count += 1;  if retry_count < MAX_RETRIES: time.sleep(retrytime)
SleepBeforeRetry(rc) == rc < MAX_RETRIES

\* give-up tests that differ in effect: logtemp gives up one retry early
GiveUpUnequal(w, rc, r) ==
    /\ IF w = "pw" THEN rc >= MAX_RETRIES ELSE rc = MAX_RETRIES - 1
    /\ r = "BSY"

\* the give-up test after the backoff:
\*   logpress: ( retry_count >= MAX_RETRIES ) and ( tpgpress == 'BSY' )
\*   logtemp:  ( retry_count == MAX_RETRIES ) and ( lkstemps == 'BSY' )
GiveUp(w, rc, r) ==
    /\ IF w = "pw" THEN rc >= MAX_RETRIES ELSE rc = MAX_RETRIES
    /\ r = "BSY"

\* the statements of the loop body after the collector has returned
TakeResult(w) ==
    /\ lpc[w] = "call"
    /\ cpc[w] = "ret"
    /\ Enter(w, fn[w], "none", ret[w])
    /\ CASE Branch(ret[w]) = "raise" ->
              /\ lpc'   = [lpc EXCEPT ![w] = "end"]
              /\ trace' = [trace EXCEPT ![w] = @ \o <<ret[w], "raised">>]
              /\ retry_count' = retry_count
         [] Branch(ret[w]) = "break" ->
              /\ lpc'   = [lpc EXCEPT ![w] = "end"]
              /\ trace' = [trace EXCEPT ![w] = @ \o <<ret[w], "exit">>]
              /\ retry_count' = retry_count
         [] Branch(ret[w]) = "log" ->
              /\ lpc'   = [lpc EXCEPT ![w] = "persist"]
              /\ trace' = [trace EXCEPT ![w] = Append(@, ret[w])]
              /\ retry_count' = retry_count
         [] Branch(ret[w]) = "retry" ->
              /\ retry_count' = [retry_count EXCEPT ![w] = @ + 1]
              /\ IF SleepBeforeRetry(retry_count[w] + 1)
                   THEN /\ lpc'   = [lpc EXCEPT ![w] = "sleep"]
                        /\ trace' = [trace EXCEPT ![w] = Append(@, ret[w])]
                   ELSE IF GiveUp(w, retry_count[w] + 1, ret[w])
                     THEN /\ lpc'   = [lpc EXCEPT ![w] = "end"]
                          /\ trace' = [trace EXCEPT ![w] = @ \o <<ret[w], "giveup">>]
                     ELSE /\ lpc'   = [lpc EXCEPT ![w] = "loop"]
                          /\ trace' = [trace EXCEPT ![w] = Append(@, ret[w])]
    /\ UNCHANGED <<mutex, jobVars, mainVars, ioVars>>

\* time.sleep(retrytime) is over; the give-up test; back to the loop test
Sleep(w) ==
    /\ lpc[w] = "sleep"
    /\ IF GiveUp(w, retry_count[w], ret[w])
         THEN /\ lpc'   = [lpc EXCEPT ![w] = "end"]
              /\ trace' = [trace EXCEPT ![w] = @ \o <<"sleep", "giveup">>]
         ELSE /\ lpc'   = [lpc EXCEPT ![w] = "loop"]
              /\ trace' = [trace EXCEPT ![w] = Append(@, "sleep")]
    /\ UNCHANGED <<mutex, colVars, retry_count, jobVars, mainVars, ioVars>>

\* the write without the "break" that follows it
PersistNoBreak(w) ==
    /\ lpc[w] = "persist"
    /\ trace' = [trace EXCEPT ![w] = Append(@, "write")]
    /\ lpc'   = [lpc EXCEPT ![w] = "loop"]
    /\ UNCHANGED <<mutex, colVars, retry_count, jobVars, mainVars, ioVars>>

\* the try block that appends the reading to the log file(s): written and
\* "break", or an exception, handled by closing the files and "return"
Persist(w) ==
    /\ lpc[w] = "persist"
    /\ \E o \in {"ok", "raise"} :
         trace' = [trace EXCEPT ![w] =
                     @ \o (IF o = "ok" THEN <<"write", "exit">>
                                       ELSE <<"wexc", "return">>)]
    /\ lpc' = [lpc EXCEPT ![w] = "end"]
    /\ UNCHANGED <<mutex, colVars, retry_count, jobVars, mainVars, ioVars>>

CycleStep(w) ==
    \/ CheckFiles(w)
    \/ CallCollector(w)
    \/ TakeResult(w)
    \/ Sleep(w)
    \/ Persist(w)

\* -------------------------------------------------------------------- Job
\* the executions of the task that have ended
Done(w) == IF jpc[w] = "exec" THEN execs[w] - 1 ELSE execs[w]

\* the new thread sets Thread._started and enters run()
Bootstrap(w) ==
    /\ jpc[w] = "boot"
    /\ jpc' = [jpc EXCEPT ![w] = "run"]
    /\ UNCHANGED <<mutex, colVars, cycVars, stopped, execs, waits,
                   startRet, stopRet, mainVars, ioVars>>

\* the call self.execute( *self.args, **self.kwargs )
Execute(w) ==
    /\ jpc'   = [jpc EXCEPT ![w] = "exec"]
    /\ execs' = [execs EXCEPT ![w] = @ + 1]
    /\ lpc'   = [lpc EXCEPT ![w] = "chk"]
    /\ trace' = [trace EXCEPT ![w] = <<>>]

\* run() that begins with the wait instead of the task
RunWaitsFirst(w) ==
    /\ jpc[w] = "run"
    /\ jpc' = [jpc EXCEPT ![w] = "wait"]
    /\ UNCHANGED <<mutex, colVars, cycVars, stopped, execs, waits,
                   startRet, stopRet, mainVars, ioVars>>

\* Job.run, first statement: self.execute(...)
RunFirst(w) ==
    /\ jpc[w] = "run"
    /\ Execute(w)
    /\ UNCHANGED <<mutex, colVars, retry_count, stopped, waits,
                   startRet, stopRet, mainVars, ioVars>>

\* a wait that ends in an execution whether or not the flag is set
WaitIgnoresStop(w) ==
    /\ jpc[w] = "wait"
    /\ execs[w] < MaxCycles
    /\ Execute(w)
    /\ waits' = [waits EXCEPT ![w] = @ + 1]
    /\ UNCHANGED <<mutex, colVars, retry_count, stopped,
                   startRet, stopRet, mainVars, ioVars>>

\* while not self.stopped.wait( interval ): the wait times out with the
\* flag not set, and the task is executed again
WaitTimeout(w) ==
    /\ jpc[w] = "wait"
    /\ ~stopped[w]
    /\ execs[w] < MaxCycles
    /\ Execute(w)
    /\ waits' = [waits EXCEPT ![w] = @ + 1]
    /\ UNCHANGED <<mutex, colVars, retry_count, stopped,
                   startRet, stopRet, mainVars, ioVars>>

\* stopped.wait() returns True: run() returns and the thread ends
WaitStopped(w) ==
    /\ jpc[w] = "wait"
    /\ stopped[w]
    /\ jpc' = [jpc EXCEPT ![w] = "dead"]
    /\ UNCHANGED <<mutex, colVars, cycVars, stopped, execs, waits,
                   startRet, stopRet, mainVars, ioVars>>

\* execute() returns to run(), or its exception ends the thread
ExecuteEnd(w) ==
    /\ jpc[w] = "exec"
    /\ lpc[w] = "end"
    /\ jpc' = [jpc EXCEPT ![w] =
                 IF trace[w][Len(trace[w])] = "raised" THEN "dead" ELSE "wait"]
    /\ lpc'   = [lpc EXCEPT ![w] = "none"]
    /\ trace' = [trace EXCEPT ![w] = <<>>]
    /\ retry_count' = [retry_count EXCEPT ![w] = 0]
    /\ UNCHANGED <<mutex, colVars, stopped, execs, waits,
                   startRet, stopRet, mainVars, ioVars>>

JobStep(w) ==
    \/ Bootstrap(w)
    \/ RunFirst(w)
    \/ WaitTimeout(w)
    \/ WaitStopped(w)
    \/ ExecuteEnd(w)

\* ------------------------------------------------------------------- main
\* temp_logging is created and started before press_logging, and stopped first
JobEnabled(w) == IF w = "tw" THEN cfg.logtemps ELSE cfg.logpress

AfterStart(w) == IF w = "tw" THEN <<"start", "pw">> ELSE <<"started", "-">>
AfterStop(w)  == IF w = "tw" THEN <<"stop", "pw">>  ELSE <<"done", "-">>

\* if config['logtemps']: temp_logging = Job(...); temp_logging.start()
\* Thread.start() starts the thread and waits for its _started event
StartCall(w) ==
    /\ mpc = <<"start", w>>
    /\ IF JobEnabled(w)
         THEN /\ jpc' = [jpc EXCEPT ![w] = "boot"]
              /\ mpc' = <<"starting", w>>
         ELSE /\ jpc' = jpc
              /\ mpc' = AfterStart(w)
    /\ UNCHANGED <<mutex, colVars, cycVars, stopped, execs, waits,
                   startRet, stopRet, cfg, ioVars>>

\* start() returns once the thread has set _started
StartReturn(w) ==
    /\ mpc = <<"starting", w>>
    /\ jpc[w] \notin {"new", "boot"}
    /\ startRet' = [startRet EXCEPT ![w] = Done(w)]
    /\ mpc' = AfterStart(w)
    /\ UNCHANGED <<mutex, colVars, cycVars, jpc, stopped, execs, waits,
                   stopRet, cfg, ioVars>>

\* if not config['jobs_started']: sys.exit(0);  else the loop of time.sleep(1)
MainLoop ==
    /\ mpc = <<"started", "-">>
    /\ mpc' = IF cfg.logtemps \/ cfg.logpress THEN <<"sleep", "-">>
                                              ELSE <<"done", "-">>
    /\ UNCHANGED <<mutex, colVars, cycVars, jobVars, cfg, ioVars>>

\* SIGINT / SIGTERM: signal_handler raises ProgramKilled in the main thread.
\* Inside the try of the loop it is caught and the jobs are stopped; anywhere
\* else (start-up, or inside the except block) it ends the main thread.
Signal ==
    /\ mpc[1] \notin {"off", "done", "killed"}
    /\ mpc' = IF mpc[1] = "sleep" THEN <<"stop", "tw">> ELSE <<"killed", "-">>
    /\ UNCHANGED <<mutex, colVars, cycVars, jobVars, cfg, ioVars>>

\* Job.stop: self.stopped.set()   (if temp_logging: temp_logging.stop())
StopSet(w) ==
    /\ mpc = <<"stop", w>>
    /\ IF JobEnabled(w)
         THEN /\ stopped' = [stopped EXCEPT ![w] = TRUE]
              /\ mpc' = <<"join", w>>
         ELSE /\ stopped' = stopped
              /\ mpc' = AfterStop(w)
    /\ UNCHANGED <<mutex, colVars, cycVars, jpc, execs, waits,
                   startRet, stopRet, cfg, ioVars>>

\* stop() that returns without the join
StopNoJoin(w) ==
    /\ mpc = <<"join", w>>
    /\ stopRet' = [stopRet EXCEPT ![w] = TRUE]
    /\ mpc' = AfterStop(w)
    /\ UNCHANGED <<mutex, colVars, cycVars, jpc, stopped, execs, waits,
                   startRet, cfg, ioVars>>

\* Job.stop: self.join() returns when the thread has ended
StopJoin(w) ==
    /\ mpc = <<"join", w>>
    /\ jpc[w] = "dead"
    /\ stopRet' = [stopRet EXCEPT ![w] = TRUE]
    /\ mpc' = AfterStop(w)
    /\ UNCHANGED <<mutex, colVars, cycVars, jpc, stopped, execs, waits,
                   startRet, cfg, ioVars>>

MainStep ==
    \/ \E w \in Workers : StartCall(w) \/ StartReturn(w)
    \/ MainLoop
    \/ Signal
    \/ \E w \in Workers : StopSet(w) \/ StopJoin(w)

\* ------------------------------------------------------------------- init
\* the module is loaded: both guards unlocked, nothing running
Loaded ==
    /\ mutex       = [d \in Devs |-> "free"]
    /\ cpc         = [t \in Threads |-> "none"]
    /\ fn          = [t \in Threads |-> "get_tpg"]
    /\ ret         = [t \in Threads |-> "NONE"]
    /\ acq         = [t \in Threads |-> "na"]
    /\ sock        = [t \in Threads |-> "none"]
    /\ ichan       = [t \in Threads |-> 0]
    /\ wire        = [t \in Threads |-> <<>>]
    /\ retlist     = [t \in Threads |-> <<>>]
    /\ lpc         = [w \in Workers |-> "none"]
    /\ retry_count = [w \in Workers |-> 0]
    /\ trace       = [w \in Workers |-> <<>>]
    /\ jpc         = [w \in Workers |-> "new"]
    /\ stopped     = [w \in Workers |-> FALSE]
    /\ execs       = [w \in Workers |-> 0]
    /\ waits       = [w \in Workers |-> 0]
    /\ startRet    = [w \in Workers |-> -1]
    /\ stopRet     = [w \in Workers |-> FALSE]

\* no read loop is running and nothing has been received
NoExchange ==
    /\ rbuf = <<>>
    /\ rx   = <<>>
    /\ eof  = FALSE
    /\ arg  = <<0, FALSE>>
    /\ influx = <<>>

\* the functions of the module are called by threads of an importing program
Init ==
    /\ Loaded
    /\ NoExchange
    /\ mpc = <<"off", "-">>
    /\ cfg = [logtemps |-> TRUE, logpress |-> TRUE]

\* ------------------------------------------- SpecGuard: concurrent callers
NextGuard == \E t \in Callers : CollectorStep(t) \/ CallerStep(t)

SpecGuard == Init /\ [][NextGuard]_vars

\* ------------------------- SpecRetry: cycles against one contending caller
Contender == CallerName[1]

\* logpress() / logtemp() called as plain functions, one call at a time
DirectCall(w) ==
    /\ \A v \in Workers : lpc[v] = "none"
    /\ lpc'   = [lpc EXCEPT ![w] = "chk"]
    /\ trace' = [trace EXCEPT ![w] = <<>>]
    /\ UNCHANGED <<mutex, colVars, retry_count, jobVars, mainVars, ioVars>>

DirectReturn(w) ==
    /\ lpc[w] = "end"
    /\ lpc'   = [lpc EXCEPT ![w] = "none"]
    /\ trace' = [trace EXCEPT ![w] = <<>>]
    /\ retry_count' = [retry_count EXCEPT ![w] = 0]
    /\ UNCHANGED <<mutex, colVars, jobVars, mainVars, ioVars>>

NextRetry ==
    \/ \E w \in Workers : DirectCall(w) \/ DirectReturn(w)
    \/ \E w \in Workers : CycleStep(w) \/ GuardedStep(w)
    \/ CollectorStep(Contender) \/ CallerStep(Contender)

SpecRetry == Init /\ [][NextRetry]_vars

\* ------------------------------------- SpecJob: the program as main runs it
\* the configuration names a temperature host, a pressure host, both or none
InitJob ==
    /\ Loaded
    /\ NoExchange
    /\ mpc = <<"start", "tw">>
    /\ cfg \in [logtemps : BOOLEAN, logpress : BOOLEAN]

NextJob ==
    \/ MainStep
    \/ \E w \in Workers : JobStep(w) \/ CycleStep(w) \/ GuardedStep(w)

SpecJob == InitJob /\ [][NextJob]_vars

\* =================================================== the exchange as text
\* The received bytes are modelled as sequences of characters.  "LF" is the
\* line feed that ends a reply (the carriage return before it is whitespace
\* to float() and int() and is left out), "ACK" is the byte \x06, "Bu" "sy"
\* are the two halves of the message 'Selected hunt group busy'.  Numbers are
\* written with the digit "1" and the point, without sign or exponent.
MaxText == 4             \* characters received during one read loop

Digits     == {"1"}
White      == {"LF"}
PressChars == {"ACK", "1", ",", ".", "LF"}
TempChars  == {"1", ".", "LF", "Bu", "sy"}

\* ACK = b'\x06\x0d\x0a'
ACK == <<"ACK", "LF">>

\* the value None of a reply variable
None == <<"None">>

\* the texts of 1..n characters of A
Texts(A, n) == UNION {[1..k -> A] : k \in 1..n}

\* c in s
Has(s, c) == \E i \in 1..Len(s) : s[i] = c

\* s.find(c), for c in s
Find(s, c) == CHOOSE i \in 1..Len(s) : s[i] = c /\ \A j \in 1..(i - 1) : s[j] # c

\* s[:s.find(c)], for c in s
Before(s, c) == SubSeq(s, 1, Find(s, c) - 1)

\* 'Selected hunt group busy' in s
HasBusy(s) == \E i \in 1..(Len(s) - 1) : s[i] = "Bu" /\ s[i + 1] = "sy"

\* s.split(c)
RECURSIVE Split(_, _)
Split(s, c) ==
    IF Has(s, c)
      THEN <<Before(s, c)>> \o Split(SubSeq(s, Find(s, c) + 1, Len(s)), c)
      ELSE <<s>>

\* ''.join(l)
RECURSIVE Join(_)
Join(l) == IF l = <<>> THEN <<>> ELSE l[1] \o Join(Tail(l))

\* s.strip(), which float() and int() apply to their argument
RECURSIVE Strip(_)
Strip(s) ==
    IF s = <<>> THEN s
    ELSE IF s[1] \in White THEN Strip(Tail(s))
    ELSE IF s[Len(s)] \in White THEN Strip(SubSeq(s, 1, Len(s) - 1))
    ELSE s

\* the integer written by the digits of s, the point skipped
RECURSIVE Mantissa(_)
Mantissa(s) ==
    IF s = <<>> THEN 0
    ELSE LET front == SubSeq(s, 1, Len(s) - 1)
             last  == s[Len(s)]
         IN  IF last = "." THEN Mantissa(front)
             ELSE 10 * Mantissa(front) + 1

\* the text is not a number: float() / int() raise ValueError
Bad == <<"ValueError">>

\* float(s): digits with at most one point and at least one digit; the
\* number is the pair <<m, e>> that stands for m / 10^e
ParseFloat(s) ==
    LET u == Strip(s)
    IN  IF /\ \A i \in 1..Len(u) : u[i] \in Digits \cup {"."}
           /\ \E i \in 1..Len(u) : u[i] \in Digits
           /\ Cardinality({i \in 1..Len(u) : u[i] = "."}) <= 1
          THEN <<Mantissa(u), IF Has(u, ".") THEN Len(u) - Find(u, ".") ELSE 0>>
          ELSE Bad

\* int(s): digits only
ParseInt(s) ==
    LET u == Strip(s)
    IN  IF u # <<>> /\ \A i \in 1..Len(u) : u[i] \in Digits
          THEN <<Mantissa(u), 0>>
          ELSE Bad

\* v * 1000.
Times1000(v) ==
    IF v[2] >= 3 THEN <<v[1], v[2] - 3>> ELSE <<v[1] * 10^(3 - v[2]), 0>>

\* numpy.nan, and the -1.0 that cryopress puts in place of a missing value
NaN      == <<"nan">>
MinusOne == <<"-1.0">>

\* ------------------------------------------------------- frames transmitted
\* a frame: the mnemonic, the formatted arguments, the terminator
ENQ == [cmd |-> "ENQ", fields |-> <<>>, end |-> ""]

\* b'PR%d\r\n' % ichan, for ichan in hconfig['presschans']
PrCmd(i) == [cmd |-> "PR", fields |-> <<i>>, end |-> "CRLF"]

\* b'SEN\r\n'
SenQuery == [cmd |-> "SEN", fields |-> <<>>, end |-> "CRLF"]

\* onoff_dict of sen_onoff: 2 (on) or 1 (off) for chan, 0 for the others
onoff_dict(chan, onoff) ==
    [i \in 1..pressnumchans |-> IF chan = i THEN (IF onoff THEN 2 ELSE 1) ELSE 0]

\* cmd = b'SEN'; for ichan in range(1, num_chans + 1): cmd += b',%d' % ...
SenCmd(chan, onoff) ==
    [cmd |-> "SEN", fields |-> onoff_dict(chan, onoff), end |-> "CRLF"]

\* hconfig['tempchans'].split(','): sensor inputs ('C2', 'A', 'B') and heaters
\* ('1', '12'), each identifier a sequence of characters
TempChanIds == << <<"C", "2">>, <<"1">>, <<"A">>, <<"1", "2">>, <<"B">> >>
tempchans   == SubSeq(TempChanIds, 1, NumChans)

\* the characters str.isdigit() counts as digits
DigitChars == {"0", "1", "2", "3", "4", "5", "6", "7", "8", "9"}

\* a test that takes an identifier with some digit in it for a heater
isdigitAny(id) == \E i \in 1..Len(id) : id[i] \in DigitChars

\* chit.isdigit(): not empty and every character a digit
isdigit(id) == id # <<>> /\ \A i \in 1..Len(id) : id[i] \in DigitChars

\* "KRDG? %s\n" % chit, or "HTR? %s\n" % chit for a heater
TempQuery(id) ==
    [cmd |-> IF isdigit(id) THEN "HTR?" ELSE "KRDG?", fields |-> <<id>>, end |-> "LF"]

\* the command of the pressure exchange of call t
Frame(t) ==
    CASE fn[t] = "get_tpg"   -> PrCmd(ichan[t])
      [] fn[t] = "sen_stat"  -> SenQuery
      [] fn[t] = "sen_onoff" -> SenCmd(arg[1], arg[2])

\* ---------------------------------------- the pressure exchange of logcryo
\* sock.sendall( cmd ), then read_tpg begins
XSend(t) ==
    /\ cpc[t] = "send"
    /\ \E o \in {"ok", "raise"} :
         \/ /\ o = "ok"
            /\ wire' = [wire EXCEPT ![t] = <<Frame(t)>>]
            /\ cpc'  = [cpc EXCEPT ![t] = "rd1"]
            /\ ret'  = ret
         \/ /\ o = "raise"
            /\ Finish(t, "ERR")
            /\ wire' = wire
    /\ rbuf' = <<>>
    /\ rx'   = <<>>
    /\ UNCHANGED <<mutex, fn, acq, sock, ichan, retlist, eof, arg, influx>>
    /\ UNCHANGED <<cycVars, jobVars, mainVars>>

\* the chunks recv can deliver in a loop that has received rx so far
Chunks(A) == Texts(A, MaxText - Len(rx))

\* ret = sock.recv(1024): read_tpg keeps the chunk just received
KeepLast(old, chunk) == chunk

\* one iteration of the loop of read_tpg: select (3 s), recv, test for LF.
\* recv delivers a chunk, or '' when the peer has closed; select times out
\* when the peer is silent; an error of select or recv is an exception
XRecv(t) ==
    /\ cpc[t] \in {"rd1", "rd2"}
    /\ \/ \E c \in Chunks(PressChars) :
            /\ ~eof
            /\ rbuf' = KeepLast(rbuf, c)
            /\ rx'   = rx \o c
            /\ cpc'  = [cpc EXCEPT ![t] =
                          IF Has(rbuf', "LF")
                            THEN (IF @ = "rd1" THEN "got1" ELSE "got2") ELSE @]
            /\ UNCHANGED <<ret, eof>>
       \/ /\ rbuf' = <<>>
          /\ eof'  = TRUE
          /\ UNCHANGED <<cpc, ret, rx>>
       \/ /\ ~eof
          /\ rbuf' = None
          /\ cpc'  = [cpc EXCEPT ![t] = IF @ = "rd1" THEN "got1" ELSE "got2"]
          /\ UNCHANGED <<ret, rx, eof>>
       \/ /\ ~eof
          /\ Finish(t, "ERR")
          /\ UNCHANGED <<rbuf, rx, eof>>
    /\ UNCHANGED <<mutex, fn, acq, sock, ichan, wire, retlist, arg, influx>>
    /\ UNCHANGED <<cycVars, jobVars, mainVars>>

\* a client that sends ENQ whatever the first reply was
XAckEnqAlways(t) ==
    /\ cpc[t] = "got1"
    /\ wire' = [wire EXCEPT ![t] = Append(@, ENQ)]
    /\ cpc'  = [cpc EXCEPT ![t] = "rd2"]
    /\ rx'   = <<>>
    /\ UNCHANGED <<mutex, fn, ret, acq, sock, ichan, retlist, rbuf, eof, arg, influx>>
    /\ UNCHANGED <<cycVars, jobVars, mainVars>>

\* if ret == ACK: sock.sendall( ENQ )
\* else: get_tpg prints and goes on; sen_onoff closes, releases and returns
\*       'ERR'; sen_stat returns 'ERR'
XAck(t) ==
    /\ cpc[t] = "got1"
    /\ IF rbuf = ACK
         THEN \E o \in {"ok", "raise"} :
                \/ /\ o = "ok"
                   /\ wire' = [wire EXCEPT ![t] = Append(@, ENQ)]
                   /\ cpc'  = [cpc EXCEPT ![t] = "rd2"]
                   /\ ret'  = ret
                \/ /\ o = "raise"
                   /\ Finish(t, "ERR")
                   /\ wire' = wire
         ELSE /\ wire' = wire
              /\ CASE fn[t] = "get_tpg"   -> cpc' = [cpc EXCEPT ![t] = "rd2"]
                                             /\ ret' = ret
                   [] fn[t] = "sen_onoff" -> Finish(t, "ERR")
                   [] fn[t] = "sen_stat"  -> Return(t, "ERR")
    /\ rx' = <<>>
    /\ UNCHANGED <<mutex, fn, acq, sock, ichan, retlist, rbuf, eof, arg, influx>>
    /\ UNCHANGED <<cycVars, jobVars, mainVars>>

\* what the statements after the second read_tpg append to retlist for the
\* reply r, or Bad when one of them raises:
\*   get_tpg:  ans = ret.decode().split(','); float( ans[1] ) * 1000.
\*   sen_*:    for stat in ans: retlist.append( int( stat ) )
Parsed(f, r) ==
    LET ans == Split(r, ",")
    IN  IF r = None THEN Bad
        ELSE IF f = "get_tpg"
          THEN IF Len(ans) < 2 \/ ParseFloat(ans[2]) = Bad
                 THEN Bad
                 ELSE <<Times1000(ParseFloat(ans[2]))>>
          ELSE IF \E i \in 1..Len(ans) : ParseInt(ans[i]) = Bad
                 THEN Bad
                 ELSE [i \in 1..Len(ans) |-> ParseInt(ans[i])]

\* config['influxdb_client']: the configuration names an InfluxDB server
influxdb_client == TRUE

\* the function writes the value of each channel to InfluxDB as it reads it
WritesPoint(f) == f = "get_tpg" /\ influxdb_client

\* the second reply is decoded and appended; in get_tpg, if
\* hconfig['influxdb_client'], the point of the channel is then written to
\* InfluxDB (write_api.write), which may raise; any exception ends the call
\* with 'ERR'
XParse(t) ==
    /\ cpc[t] = "got2"
    /\ \E db \in {"ok", "raise"} :
         IF Parsed(fn[t], rbuf) = Bad
           THEN /\ Finish(t, "ERR")
                /\ UNCHANGED <<retlist, ichan, influx>>
           ELSE /\ retlist' = [retlist EXCEPT ![t] = @ \o Parsed(fn[t], rbuf)]
                /\ IF WritesPoint(fn[t]) /\ db = "raise"
                     THEN Finish(t, "ERR") /\ UNCHANGED <<ichan, influx>>
                     ELSE /\ influx' = IF WritesPoint(fn[t])
                                         THEN Append(influx,
                                                <<ichan[t], Parsed(fn[t], rbuf)[1]>>)
                                         ELSE influx
                          /\ IF LastChan(t)
                               THEN Finish(t, "OK") /\ ichan' = ichan
                               ELSE /\ ichan' = [ichan EXCEPT ![t] = @ + 1]
                                    /\ cpc'   = [cpc EXCEPT ![t] = "send"]
                                    /\ ret'   = ret
    /\ UNCHANGED <<mutex, fn, acq, sock, wire, rbuf, rx, eof, arg>>
    /\ UNCHANGED <<cycVars, jobVars, mainVars>>

\* ------------------------------------------------ the temperature exchange
\* sock.sendall( message.encode() ); datl = []; temp = ''
XTempSend(t) ==
    /\ cpc[t] = "tsend"
    /\ \E o \in {"ok", "raise"} :
         \/ /\ o = "ok"
            /\ wire' = [wire EXCEPT ![t] = <<TempQuery(tempchans[ichan[t]])>>]
            /\ cpc'  = [cpc EXCEPT ![t] = "trd"]
            /\ UNCHANGED <<ret, retlist>>
         \/ /\ o = "raise"
            /\ retlist' = [retlist EXCEPT ![t] = Append(@, NaN)]
            /\ Finish(t, "ERR")
            /\ wire' = wire
    /\ rbuf' = <<>>
    /\ rx'   = <<>>
    /\ UNCHANGED <<mutex, fn, acq, sock, ichan, eof, arg, influx>>
    /\ UNCHANGED <<cycVars, jobVars, mainVars>>

\* a reader that keeps only the chunk just received
AccumulateLast(datl, temp) ==
    IF Has(temp, "LF") THEN <<Before(temp, "LF")>> ELSE <<temp>>

\* datl after an iteration that received temp:
\*   if endchar in temp: datl.append(temp[:temp.find(endchar)])
\*   else: datl.append(temp); if len(datl)>1: last=datl[-2]+datl[-1]; if
\*         endchar in last: datl[-2]=last[:last.find(endchar)]; datl.pop()
Accumulate(datl, temp) ==
    IF Has(temp, "LF")
      THEN Append(datl, Before(temp, "LF"))
      ELSE LET d    == Append(datl, temp)
               last == d[Len(d) - 1] \o d[Len(d)]
           IN  IF Len(d) > 1 /\ Has(last, "LF")
                 THEN Append(SubSeq(d, 1, Len(d) - 2), Before(last, "LF"))
                 ELSE d

\* the iteration leaves the loop (one of the two "break")
EndOfReply(datl, temp) ==
    \/ Has(temp, "LF")
    \/ Len(datl) > 0 /\ Has(datl[Len(datl)] \o temp, "LF")

\* one iteration of the receive loop of get_temps on the chunk temp
TempChunk(t, temp) ==
    /\ rx' = rx \o temp
    /\ IF HasBusy(temp)
         THEN /\ Finish(t, "BSY")
              /\ UNCHANGED <<rbuf, retlist, ichan>>
         ELSE /\ rbuf' = Accumulate(rbuf, temp)
              /\ IF ~EndOfReply(rbuf, temp)
                   THEN UNCHANGED <<cpc, ret, retlist, ichan>>
                   ELSE IF ParseFloat(Join(rbuf')) = Bad
                     THEN /\ retlist' = [retlist EXCEPT ![t] = Append(@, NaN)]
                          /\ Finish(t, "ERR")
                          /\ ichan' = ichan
                     ELSE /\ retlist' = [retlist EXCEPT ![t] =
                                            Append(@, ParseFloat(Join(rbuf')))]
                          /\ IF ichan[t] = NumChans
                               THEN Finish(t, "OK") /\ ichan' = ichan
                               ELSE /\ ichan' = [ichan EXCEPT ![t] = @ + 1]
                                    /\ cpc'   = [cpc EXCEPT ![t] = "tsend"]
                                    /\ ret'   = ret

\* temp = sock.recv(1024).decode('UTF-8') and the rest of the iteration; recv
\* delivers a chunk, '' when the peer has closed, or raises (nothing arrived
\* within SOCK_TIMEOUT, connection reset): the handler appends NaN and the
\* call ends with 'ERR'.  The '' appended to datl are bounded by MaxText.
XTempRecv(t) ==
    /\ cpc[t] = "trd"
    /\ \/ \E c \in Chunks(TempChars) :
            ~eof /\ TempChunk(t, c) /\ eof' = eof
       \/ /\ Len(rbuf) <= MaxText
          /\ TempChunk(t, <<>>)
          /\ eof' = TRUE
       \/ /\ ~eof
          /\ retlist' = [retlist EXCEPT ![t] = Append(@, NaN)]
          /\ Finish(t, "ERR")
          /\ UNCHANGED <<rbuf, rx, eof, ichan>>
    /\ UNCHANGED <<mutex, fn, acq, sock, wire, arg, influx>>
    /\ UNCHANGED <<cycVars, jobVars, mainVars>>

\* ------------------------------------- cryopress: --read / read_pressure
\* sock = socket.socket(...); sock.connect( (host, port) ); read_pressure:
\* retlist = [timestamp]; a socket.error is caught by the handler of main
CpConnect(t) ==
    /\ cpc[t] = "cconn"
    /\ \E o \in {"ok", "fail"} :
         \/ /\ o = "ok"
            /\ sock'    = [sock EXCEPT ![t] = "open"]
            /\ retlist' = [retlist EXCEPT ![t] = <<"ts">>]
            /\ ichan'   = [ichan EXCEPT ![t] = 1]
            /\ cpc'     = [cpc EXCEPT ![t] = "csend"]
            /\ ret' = ret
         \/ /\ o = "fail"
            /\ Return(t, "ERR")
            /\ sock' = [sock EXCEPT ![t] = "closed"]
            /\ UNCHANGED <<retlist, ichan>>
    /\ UNCHANGED <<mutex, fn, acq, wire, ioVars>>
    /\ UNCHANGED <<cycVars, jobVars, mainVars>>

\* the program ends: "finally: if sock: sock.close()"; v is 'ERR' for a
\* socket.error (caught), "EXC" for any other exception (not caught)
CpEnd(t, v) ==
    /\ Return(t, v)
    /\ sock' = [sock EXCEPT ![t] = "closed"]

\* send_command('PR%d' % ichan); get_reply begins with reply = None
CpSend(t) ==
    /\ cpc[t] = "csend"
    /\ \E o \in {"ok", "raise"} :
         \/ /\ o = "ok"
            /\ wire' = [wire EXCEPT ![t] = <<PrCmd(ichan[t])>>]
            /\ cpc'  = [cpc EXCEPT ![t] = "crd1"]
            /\ UNCHANGED <<ret, sock>>
         \/ /\ o = "raise"
            /\ CpEnd(t, "ERR")
            /\ wire' = wire
    /\ rbuf' = None
    /\ rx'   = <<>>
    /\ UNCHANGED <<mutex, fn, acq, ichan, retlist, eof, arg, influx>>
    /\ UNCHANGED <<cycVars, jobVars, mainVars>>

\* one iteration of the loop of get_reply: like read_tpg, but on the select
\* timeout reply keeps the chunk received before
CpRecv(t) ==
    /\ cpc[t] \in {"crd1", "crd2"}
    /\ \/ \E c \in Chunks(PressChars) :
            /\ ~eof
            /\ rbuf' = KeepLast(rbuf, c)
            /\ rx'   = rx \o c
            /\ cpc'  = [cpc EXCEPT ![t] =
                          IF Has(rbuf', "LF")
                            THEN (IF @ = "crd1" THEN "cgot1" ELSE "cgot2") ELSE @]
            /\ UNCHANGED <<ret, sock, eof>>
       \/ /\ rbuf' = <<>>
          /\ eof'  = TRUE
          /\ UNCHANGED <<cpc, ret, sock, rx>>
       \/ /\ ~eof
          /\ cpc'  = [cpc EXCEPT ![t] = IF @ = "crd1" THEN "cgot1" ELSE "cgot2"]
          /\ UNCHANGED <<ret, sock, rbuf, rx, eof>>
       \/ /\ ~eof
          /\ CpEnd(t, "ERR")
          /\ UNCHANGED <<rbuf, rx, eof>>
    /\ UNCHANGED <<mutex, fn, acq, ichan, wire, retlist, arg, influx>>
    /\ UNCHANGED <<cycVars, jobVars, mainVars>>

\* if rep==ACK: sock.sendall(ENQ)  else: print(...);  then sock.sendall(ENQ)
CpAck(t) ==
    /\ cpc[t] = "cgot1"
    /\ \E o \in {"ok", "raise"} :
         \/ /\ o = "ok"
            /\ wire' = [wire EXCEPT ![t] =
                          @ \o (IF rbuf = ACK THEN <<ENQ, ENQ>> ELSE <<ENQ>>)]
            /\ cpc'  = [cpc EXCEPT ![t] = "crd2"]
            /\ UNCHANGED <<ret, sock>>
         \/ /\ o = "raise"
            /\ CpEnd(t, "ERR")
            /\ wire' = wire
    /\ rbuf' = None
    /\ rx'   = <<>>
    /\ UNCHANGED <<mutex, fn, acq, ichan, retlist, eof, arg, influx>>
    /\ UNCHANGED <<cycVars, jobVars, mainVars>>

\* what read_pressure appends for the reply r:
\*   try: retlist.append(float(ans[1])*1000.)
\*   except IndexError: retlist.append(-1.0)
CpValue(r) ==
    LET ans == Split(r, ",")
    IN  IF Len(ans) < 2 THEN MinusOne
        ELSE IF ParseFloat(ans[2]) = Bad THEN Bad
        ELSE Times1000(ParseFloat(ans[2]))

\* ans=rep.decode().split(','); the value is appended; int(ans[0]) is tested.
\* None.decode, float() of a text that is no number and int() of a text that
\* is no integer raise exceptions that nothing catches
CpParse(t) ==
    /\ cpc[t] = "cgot2"
    /\ IF rbuf = None \/ CpValue(rbuf) = Bad
         THEN CpEnd(t, "EXC") /\ UNCHANGED <<retlist, ichan>>
         ELSE /\ retlist' = [retlist EXCEPT ![t] = Append(@, CpValue(rbuf))]
              /\ IF ParseInt(Split(rbuf, ",")[1]) = Bad
                   THEN CpEnd(t, "EXC") /\ ichan' = ichan
                   ELSE IF ichan[t] = NumChans
                     THEN CpEnd(t, "OK") /\ ichan' = ichan
                     ELSE /\ ichan' = [ichan EXCEPT ![t] = @ + 1]
                          /\ cpc'   = [cpc EXCEPT ![t] = "csend"]
                          /\ UNCHANGED <<ret, sock>>
    /\ UNCHANGED <<mutex, fn, acq, wire, ioVars>>
    /\ UNCHANGED <<cycVars, jobVars, mainVars>>

\* ------------------------------------------------------- calls and SpecWire
\* sen_onoff(chan, onoff, **hconfig) with its arguments kept
CallSenOnoffWith(t, chan, onoff) ==
    /\ cpc[t] = "none"
    /\ IF chan \in presschans
         THEN Enter(t, "sen_onoff", "ret", "ERR")
         ELSE Enter(t, "sen_onoff", "probe", "NONE")
    /\ arg' = <<chan, onoff>>
    /\ UNCHANGED <<mutex, rbuf, rx, eof, influx>>
    /\ UNCHANGED <<cycVars, jobVars, mainVars>>

\* cryopress is run with --read
CallReadPressure(t) ==
    /\ cpc[t] = "none"
    /\ Enter(t, "read_pressure", "cconn", "NONE")
    /\ UNCHANGED <<mutex, ioVars>>
    /\ UNCHANGED <<cycVars, jobVars, mainVars>>

\* the call is over: its locals and its connection are gone
XReturn(t) ==
    /\ cpc[t] = "ret"
    /\ Enter(t, "get_tpg", "none", "NONE")
    /\ rbuf' = <<>> /\ rx' = <<>> /\ eof' = FALSE /\ arg' = <<0, FALSE>>
    /\ influx' = <<>>
    /\ UNCHANGED mutex
    /\ UNCHANGED <<cycVars, jobVars, mainVars>>

\* the arguments given to sen_onoff: channels inside and outside the controller
ChanArgs == 0..pressnumchans

\* one thread makes the calls; the peer answers with any text
XCall(t) ==
    \/ \E f \in {"get_tpg", "sen_stat", "get_temps"} : CallPlain(t, f)
    \/ \E chan \in ChanArgs, onoff \in BOOLEAN : CallSenOnoffWith(t, chan, onoff)
    \/ CallReadPressure(t)

XStep(t) ==
    \/ Probe(t)
    \/ Acquire(t)
    \/ OpenSocket(t)
    \/ XSend(t)
    \/ XRecv(t)
    \/ XAck(t)
    \/ XParse(t)
    \/ XTempSend(t)
    \/ XTempRecv(t)
    \/ CloseRelease(t)

CpStep(t) ==
    \/ CpConnect(t)
    \/ CpSend(t)
    \/ CpRecv(t)
    \/ CpAck(t)
    \/ CpParse(t)

NextWire ==
    \/ XCall(Contender)
    \/ XStep(Contender)
    \/ CpStep(Contender)
    \/ XReturn(Contender)

SpecWire == Init /\ [][NextWire]_vars

\* ================================================================= claims
\* a call is between its guard-acquire step and its guard-release step
InRegion(t) ==
    cpc[t] \in {"open", "send", "read1", "read2", "tsend", "tread", "fin",
                "gp_open", "gp_send", "gp_read", "spin"}

InCall(t) == cpc[t] \notin {"none", "ret"}

\* the call has returned a value (a reading, 'BSY' or 'ERR')
Returned(t) == cpc[t] = "ret" /\ ret[t] # "EXC"

\* C1: mutual exclusion per device class: no two calls on the same guard are
\* at the same time between their guard-acquire and guard-release steps.
C1_MutualExclusion ==
    \A t1, t2 \in Threads :
        (t1 # t2 /\ InRegion(t1) /\ InRegion(t2)) => Dev(fn[t1]) # Dev(fn[t2])

\* C2: when a collector call has returned, whatever its result, the guard it
\* acquired is no longer held by it; so a guard is unlocked whenever no call
\* on it is in progress.
C2_GuardReleasedOnReturn ==
    /\ \A t \in Threads : Returned(t) => mutex[Dev(fn[t])] # t
    /\ \A d \in Devs :
         (\A t \in Threads : InCall(t) => Dev(fn[t]) # d) => ~locked(d)

\* C3: a call whose bounded acquire did not obtain the guard opens no
\* connection, sends nothing and returns 'BSY'.
C3_AcquireTimeoutIsBusy ==
    \A t \in Threads :
        acq[t] = "F" =>
            /\ sock[t] = "none"
            /\ wire[t] = <<>>
            /\ cpc[t] = "ret" => ret[t] = "BSY"

\* C4: of two concurrent callers of the same collector, the one that does not
\* get the guard does not wait: no caller is in the guard-acquire step while
\* another caller holds the guard.
C4_NoCallerWaitsOnGuard ==
    \A t1, t2 \in Threads :
        (t1 # t2 /\ fn[t1] = fn[t2] /\ cpc[t1] \in {"acquire", "gp_acquire"})
            => mutex[Dev(fn[t1])] # t2

\* C5: every socket opened by a collector call is closed when the call has
\* returned, on every exit path.
C5_SocketClosedOnReturn ==
    \A t \in Threads : Returned(t) => sock[t] # "open"

\* the values a collector call hands to the cycle
ResultKinds == {"OK", "BSY", "ERR", "EXC", "None"}

\* the trace of a cycle whose collector always returns 'BSY'
BusyTrace ==
    [i \in 1..(2 * MAX_RETRIES) |->
        IF i = 2 * MAX_RETRIES THEN "giveup"
        ELSE IF i % 2 = 1 THEN "BSY" ELSE "sleep"]

OnlyBusy(tr) ==
    /\ \E i \in 1..Len(tr) : tr[i] \in ResultKinds
    /\ \A i \in 1..Len(tr) : tr[i] \in ResultKinds => tr[i] = "BSY"

\* C6: a cycle whose collector returns 'BSY' every time invokes it exactly
\* MAX_RETRIES times with one sleep between consecutive invocations and none
\* after the last, writes nothing, and ends by giving up without raising.
C6_AlwaysBusyCycle ==
    \A w \in Workers :
        OnlyBusy(trace[w]) =>
            /\ Len(trace[w]) <= Len(BusyTrace)
            /\ \A i \in 1..Len(trace[w]) : trace[w][i] = BusyTrace[i]
            /\ lpc[w] = "end" => trace[w] = BusyTrace

\* a cycle has made MAX_RETRIES busy invocations and given up
C6_Witness == lpc["pw"] = "end" /\ trace["pw"] = BusyTrace

\* C7: once a collector invocation has returned 'ERR' the cycle ends: nothing
\* follows it, neither an invocation nor a sleep nor a write.
C7_ErrEndsCycle ==
    \A w \in Workers : \A i \in 1..Len(trace[w]) :
        trace[w][i] = "ERR" =>
            /\ lpc[w] = "end"
            /\ Len(trace[w]) = i + 1
            /\ trace[w][i + 1] = "exit"

\* an 'ERR' that follows a 'BSY' and its sleep has ended the cycle
C7_Witness ==
    lpc["pw"] = "end" /\ trace["pw"] = <<"BSY", "sleep", "ERR", "exit">>

\* C8 as stated: the reading of a cycle is written exactly once, directly
\* after the invocation that returned it, and the cycle ends there.
C8_ReadingWrittenOnce ==
    \A w \in Workers : \A i \in 1..Len(trace[w]) :
        /\ trace[w][i] = "OK" =>
             \/ lpc[w] = "persist" /\ Len(trace[w]) = i
             \/ /\ lpc[w] = "end"
                /\ Len(trace[w]) = i + 2
                /\ trace[w][i + 1] = "write"
        /\ trace[w][i] = "write" => i > 1 /\ trace[w][i - 1] = "OK"

\* C8 amended: a returned reading goes to the persistence step exactly once,
\* directly after the invocation that returned it, and the cycle ends with
\* that step without another invocation or sleep; the step writes the reading
\* once or raises; it never runs for 'BSY' or 'ERR'.
C8_ReadingPersistedOnce ==
    \A w \in Workers : \A i \in 1..Len(trace[w]) :
        /\ trace[w][i] = "OK" =>
             \/ lpc[w] = "persist" /\ Len(trace[w]) = i
             \/ /\ lpc[w] = "end"
                /\ Len(trace[w]) = i + 2
                /\ trace[w][i + 1] \in {"write", "wexc"}
        /\ trace[w][i] \in {"write", "wexc"} => i > 1 /\ trace[w][i - 1] = "OK"

\* a reading that followed a 'BSY' and its sleep has been written
C8_Witness ==
    lpc["pw"] = "end" /\ trace["pw"] = <<"BSY", "sleep", "OK", "write", "exit">>

\* C9 as stated: when start() returns the task has been executed exactly once.
C9_ExecutedOnceAtStartReturn ==
    \A w \in Workers : startRet[w] # -1 => startRet[w] = 1

\* C9 amended: when start() has returned the worker thread has been started,
\* and the worker executes the task first, before any interval wait: the
\* executions it has begun are one more than the waits that timed out.
C9_FirstRunBeforeAnyWait ==
    \A w \in Workers :
        /\ startRet[w] # -1 => jpc[w] \notin {"new", "boot"}
        /\ jpc[w] \in {"new", "boot", "run"} => execs[w] = 0 /\ waits[w] = 0
        /\ jpc[w] \in {"exec", "wait", "dead"} => execs[w] = waits[w] + 1

\* start() returned before the first execution had ended, which then ended
C9_Witness ==
    startRet["tw"] = 0 /\ jpc["tw"] = "wait" /\ execs["tw"] = 1

\* C10: when stop() has returned, the worker is not inside execute() (neither
\* in a cycle nor in an exchange) and has terminated.
C10_StopReturnsAfterTask ==
    \A w \in Workers :
        stopRet[w] => jpc[w] = "dead" /\ lpc[w] = "none" /\ cpc[w] = "none"

\* stop() has returned for a Job that had begun a second execution
C10_Witness == stopRet["pw"] /\ execs["pw"] = 2

\* C11: every execution of a Job's task after the first begins from the wait
\* point, by a wait that timed out with the stop flag not set, and that wait
\* began where the previous execution ended; an execution begins only while
\* no other execution of the Job is in progress.
C11_RunAfterFullWait ==
    [][\A w \in Workers :
          /\ execs'[w] # execs[w] =>
                /\ execs'[w] = execs[w] + 1
                /\ jpc[w] \in {"run", "wait"}
                /\ lpc[w] = "none" /\ cpc[w] = "none"
                /\ execs[w] >= 1 =>
                      jpc[w] = "wait" /\ ~stopped[w] /\ waits'[w] = waits[w] + 1
          /\ (jpc'[w] = "wait" /\ jpc[w] # "wait") =>
                jpc[w] = "exec" /\ lpc[w] = "end"]_vars

\* a second execution is in progress after one wait that timed out
C11_Witness ==
    jpc["tw"] = "exec" /\ execs["tw"] = 2 /\ waits["tw"] = 1 /\ lpc["tw"] = "call"

\* C12: whatever the outcome of a cycle, the worker is alive afterwards: a
\* worker thread has ended only if its stop flag was set.
C12_WorkerSurvivesCycle ==
    \A w \in Workers : jpc[w] = "dead" => stopped[w]

\* the collectors that probe and acquire their guard with a timeout
GuardedFns == {"get_tpg", "get_temps", "sen_onoff", "sen_stat"}

\* C13: every call of get_tpg, get_temps, sen_onoff or sen_stat ends by
\* returning a reading list, 'BSY' or 'ERR'; no exception leaves the call.
C13_NoExceptionEscapes ==
    \A t \in Threads :
        (cpc[t] = "ret" /\ fn[t] \in GuardedFns) => ret[t] \in {"OK", "BSY", "ERR"}

\* the positions inside the loops of read_tpg, get_temps and get_reply
ReadLoops == {"rd1", "rd2", "trd", "crd1", "crd2"}

\* C14: no exchange hangs; in particular when the peer closes the connection
\* and recv returns the empty chunk, the read loop ends: no call is inside a
\* read loop once recv has returned ''.
C14_ClosedPeerEndsRead ==
    eof => \A t \in Threads : cpc[t] \notin ReadLoops

\* an element of a returned list is a number, not a placeholder
IsNumber(v) == v # NaN /\ v # MinusOne /\ v # Bad

\* C15: every list returned by get_tpg, get_temps or read_pressure is the
\* timestamp followed by one number per configured channel; no returned list
\* is short or holds a placeholder.
C15_ReadingShape ==
    \A t \in Threads :
        (cpc[t] = "ret" /\ ret[t] = "OK"
            /\ fn[t] \in {"get_tpg", "get_temps", "read_pressure"}) =>
            /\ Len(retlist[t]) = NumChans + 1
            /\ \A i \in 2..Len(retlist[t]) : IsNumber(retlist[t][i])

\* the data line 'status,value' ended by its only LF
WellFormedLine(s) ==
    /\ Len(s) > 0
    /\ Find(s, "LF") = Len(s)
    /\ Len(Split(s, ",")) = 2
    /\ ParseInt(Split(s, ",")[1]) # Bad
    /\ ParseFloat(Split(s, ",")[2]) # Bad

\* C16: when the first reply of a channel was ACK and the text received as
\* second reply is a well-formed data line, the read has appended the value
\* of the line multiplied by 1000 for that channel.
C16_WellFormedPressureRead ==
    \A t \in Threads :
        (fn[t] \in {"get_tpg", "read_pressure"} /\ cpc[t] \in {"fin", "ret"}
            /\ Len(wire[t]) >= 2 /\ Has(rx, "LF") /\ WellFormedLine(rx)) =>
            /\ Len(retlist[t]) = ichan[t] + 1
            /\ retlist[t][ichan[t] + 1] = Times1000(ParseFloat(Split(rx, ",")[2]))

NumericReply(s) ==
    /\ Has(s, "LF")
    /\ Find(s, "LF") = Len(s)
    /\ ParseFloat(Before(s, "LF")) # Bad

\* C18: when the text received for a channel of get_temps is a number ended
\* by LF, the value appended for the channel is the number written before
\* the LF, however the text was split into chunks.
C18_TempReassembly ==
    \A t \in Threads :
        (fn[t] = "get_temps" /\ cpc[t] \in {"tsend", "fin"} /\ NumericReply(rx)) =>
            LET n == IF cpc[t] = "fin" THEN ichan[t] ELSE ichan[t] - 1
            IN  /\ cpc[t] = "fin" => ret[t] = "OK"
                /\ Len(retlist[t]) = n + 1
                /\ retlist[t][n + 1] = ParseFloat(Before(rx, "LF"))

\* the reply "1.1" LF came in the chunks "1." and "1" LF and gave 1.1
C18_Witness ==
    /\ fn[Contender] = "get_temps" /\ cpc[Contender] = "fin"
    /\ rx = <<"1", ".", "1", "LF">>
    /\ rbuf = << <<"1", ".">>, <<"1">> >>
    /\ retlist[Contender][Len(retlist[Contender])] = <<11, 1>>

\* C19: a get_temps call that received a chunk with 'Selected hunt group
\* busy' (its exit with 'BSY' is pending) returns 'BSY' with its socket
\* closed and the temperature guard unlocked.
C19_BusyChunkReturnsBusy ==
    [][\A t \in Threads :
          (fn[t] = "get_temps" /\ cpc[t] = "fin" /\ ret[t] = "BSY"
              /\ cpc'[t] = "ret") =>
              ret'[t] = "BSY" /\ sock'[t] = "closed" /\ ~locked("temp")']_vars

\* C20: sen_onoff(k, on) with k in 1..pressnumchans is not refused because of
\* k (an 'ERR' comes from the connection or the exchange), and the command it
\* transmits is 'SEN' with pressnumchans fields, field k being 2 (on) or 1
\* (off) and the others 0, ended by CRLF.
C20_SenOnoffFraming ==
    \A t \in Threads :
        (fn[t] = "sen_onoff" /\ arg[1] \in 1..pressnumchans) =>
            /\ (cpc[t] = "ret" /\ ret[t] = "ERR") => acq[t] # "na"
            /\ cpc[t] \in {"rd1", "got1"} =>
                  wire[t] = << [cmd    |-> "SEN",
                                fields |-> [i \in 1..pressnumchans |->
                                              IF i = arg[1]
                                                THEN (IF arg[2] THEN 2 ELSE 1)
                                                ELSE 0],
                                end    |-> "CRLF"] >>

\* the Job of worker w has been started by main
Started(w) == jpc[w] # "new"

\* C21: graceful shutdown: when the main thread has ended after a shutdown
\* signal, stop() has been called on every started Job (its stop flag is
\* set), also when a further signal arrived while the first was handled.
C21_SignalStopsEveryJob ==
    mpc[1] \in {"done", "killed"} =>
        \A w \in Workers : Started(w) => stopped[w]

\* the shutdown signal has been handled so far that a stop flag is set
StopRequested == \E v \in Workers : stopped[v]

\* C22: the stop flag is shared: once the handling of the shutdown signal has
\* set a stop flag, every worker only completes its in-flight cycle; no
\* worker, temperature or pressure, begins a new cycle from its wait point.
C22_NoCycleBeginsAfterSignal ==
    [][\A w \in Workers :
          (StopRequested /\ jpc[w] = "wait") => execs'[w] = execs[w]]_vars

\* the guard of a device class as the specification assigns it
GuardOf(f) == IF f = "get_temps" THEN "temp" ELSE "press"
OtherGuard(f) == IF f = "get_temps" THEN "press" ELSE "temp"

\* C23: a collector call never changes the guard of the other device class
\* (a guard changes only in a step of a call of its own class), never reads
\* it (the probe returns 'BSY' exactly when the guard of its own class is
\* locked, the acquire obtains the guard exactly when its own is unlocked,
\* whatever the state of the other), and so never returns 'BSY' because the
\* other guard is held.
C23_DeviceClassesIndependent ==
    [][/\ \A d \in Devs :
            mutex'[d] # mutex[d] =>
                \E t \in Threads :
                    cpc'[t] # cpc[t] /\ cpc[t] # "none" /\ GuardOf(fn[t]) = d
       /\ \A t \in Threads :
            /\ (cpc[t] = "probe" /\ cpc'[t] # "probe") =>
                  IF mutex[GuardOf(fn[t])] # "free"
                    THEN cpc'[t] = "ret" /\ ret'[t] = "BSY"
                    ELSE cpc'[t] = "acquire"
            /\ (cpc[t] = "acquire" /\ cpc'[t] # "acquire") =>
                  /\ acq'[t] = (IF mutex[GuardOf(fn[t])] = "free" THEN "T" ELSE "F")
                  /\ mutex'[OtherGuard(fn[t])] = mutex[OtherGuard(fn[t])]
            /\ (cpc'[t] = "ret" /\ cpc[t] # "ret" /\ ret'[t] = "BSY") =>
                  \/ cpc[t] = "probe" /\ mutex[GuardOf(fn[t])] # "free"
                  \/ cpc[t] = "fin" /\ fn[t] = "get_temps"]_vars

\* a temperature exchange and a pressure exchange are in progress at the same
\* time, each holding the guard of its class
C23_Witness ==
    /\ cpc["tw"] = "tread" /\ mutex["temp"] = "tw"
    /\ fn[Contender] = "get_tpg" /\ cpc[Contender] = "read2"
    /\ mutex["press"] = Contender

\* the functions of logcryo that run the pressure exchange
PressExchanges == {"get_tpg", "sen_onoff", "sen_stat"}

\* C24: in every pressure exchange ENQ is sent only when the first reply is
\* ACK, and after any other first reply (NAK, other bytes, None of the
\* timeout) the exchange ends there with 'ERR': nothing more is sent and no
\* second reply is read.
C24_OnlyAckContinues ==
    [][\A t \in Threads :
          /\ (wire'[t] # wire[t] /\ wire'[t] # <<>>
                /\ wire'[t][Len(wire'[t])] = ENQ /\ fn[t] \in PressExchanges) =>
                cpc[t] = "got1" /\ rbuf = ACK
          /\ (cpc[t] = "got1" /\ rbuf # ACK /\ fn[t] \in PressExchanges) =>
                /\ cpc'[t] \in {"fin", "ret"}
                /\ ret'[t] = "ERR"
                /\ wire'[t] = wire[t]]_vars

\* the fields of a SEN set command: one of them 1 or 2, all the others 0
OneFieldSet(fields) ==
    \E k \in 1..Len(fields) :
        /\ fields[k] \in {1, 2}
        /\ \A i \in 1..Len(fields) : i # k => fields[i] = 0

\* C25: every SEN set command transmitted by sen_onoff has exactly one field
\* equal to 1 or 2 and all other fields 0, whatever the chan argument was.
C25_OneFieldPerSenCommand ==
    \A t \in Threads :
        (fn[t] = "sen_onoff" /\ wire[t] # <<>>) => OneFieldSet(wire[t][1].fields)

\* C26: whenever the text received in reply to a temperature query contains
\* 'Selected hunt group busy', in one chunk or split across two, the get_temps
\* call that has left its receive loop ends with 'BSY', not with 'ERR' and
\* not with a value.
C26_BusyAnywhereReturnsBusy ==
    \A t \in Threads :
        (fn[t] = "get_temps" /\ cpc[t] \in {"tsend", "fin", "ret"} /\ HasBusy(rx)) =>
            cpc[t] \in {"fin", "ret"} /\ ret[t] = "BSY"

\* the positions at which read_tpg / get_reply has just returned
ReplyReturned == {"got1", "got2", "cgot1", "cgot2"}

\* C27: when a response arrived with its LF only at the end, in one chunk or
\* in several, the reply returned by read_tpg / get_reply is the whole text
\* received since the read began.
C27_ReplyIsWholeResponse ==
    \A t \in Threads :
        (cpc[t] \in ReplyReturned /\ Has(rx, "LF") /\ Find(rx, "LF") = Len(rx)) =>
            rbuf = rx

\* read_tpg / get_reply has returned because nothing arrived within 3 s: the
\* reply it returned holds no LF (None, or in get_reply the chunk before)
TimedOut(t) == cpc[t] \in ReplyReturned /\ ~Has(rbuf, "LF")

\* C28: when a read of the first or the second reply times out, the calling
\* operation ends there with the error outcome: 'ERR' with the close of the
\* socket and the release of the guard pending (logcryo) or done, and no
\* exception.
C28_TimeoutEndsWithErr ==
    [][\A t \in Threads :
          (TimedOut(t) /\ cpc'[t] # cpc[t]) =>
              /\ ret'[t] = "ERR"
              /\ \/ cpc'[t] = "fin"
                 \/ cpc'[t] = "ret" /\ sock'[t] = "closed" /\ mutex'["press"] # t]_vars

\* C29: a get_temps call whose first query was sent and whose reply did not
\* give a number (the list holds the timestamp and NaN) has sent no further
\* query and, once it has ended, has returned 'ERR', not the list and not an
\* exception, with its socket closed.
C29_ParseFailureReturnsErr ==
    \A t \in Threads :
        (fn[t] = "get_temps" /\ retlist[t] = <<"ts", "nan">> /\ wire[t] = <<"QRY">>) =>
            /\ cpc[t] \in {"fin", "ret"}
            /\ cpc[t] = "fin" => ret[t] = "ERR"
            /\ cpc[t] = "ret" => ret[t] = "ERR" /\ sock[t] = "closed"

\* C30: a collector call that obtained its guard and got no socket from
\* open_socket (no address connected, or none was resolved) has, when it has
\* ended, returned 'ERR' without sending anything, and no longer holds the
\* guard.
C30_ConnectFailureReturnsErr ==
    \A t \in Threads :
        (cpc[t] = "ret" /\ acq[t] = "T" /\ sock[t] = "none") =>
            /\ ret[t] = "ERR"
            /\ wire[t] = <<>>
            /\ mutex[Dev(fn[t])] # t

\* the query the specification gives for the channel identifier id:
\* 'HTR? <id>' + LF when id consists only of digits, else 'KRDG? <id>' + LF
QueryFor(id) ==
    [cmd    |-> IF id # <<>> /\ \A i \in 1..Len(id) : id[i] \in DigitChars
                  THEN "HTR?" ELSE "KRDG?",
     fields |-> <<id>>,
     end    |-> "LF"]

\* C31: get_temps sends one query per configured channel in configured order:
\* the k-th query is sent when k - 1 values have been appended, the reply to
\* the query before it having been read up to its LF; the query is the one
\* the identifier asks for; every value is appended for the channel queried
\* last, so a returned list holds one value per channel in query order.
C31_TempQuerySequence ==
    [][\A t \in Threads : fn[t] = "get_temps" =>
          /\ (wire'[t] # wire[t] /\ wire'[t] # <<>>) =>
                /\ cpc[t] = "tsend"
                /\ ichan[t] = Len(retlist[t])
                /\ ichan[t] \in 1..NumChans
                /\ wire'[t] = <<QueryFor(tempchans[ichan[t]])>>
                /\ ichan[t] > 1 => Has(rx, "LF")
          /\ (retlist'[t] # retlist[t] /\ cpc[t] = "trd"
                /\ retlist'[t][Len(retlist'[t])] # NaN) =>
                /\ Len(retlist'[t]) = ichan[t] + 1
                /\ SubSeq(retlist'[t], 1, ichan[t]) = retlist[t]
                /\ wire[t] = <<QueryFor(tempchans[ichan[t]])>>
          /\ (cpc'[t] = "fin" /\ ret'[t] = "OK") =>
                Len(retlist'[t]) = Len(tempchans) + 1]_vars

\* every channel has been queried and has given its value: the call ends
\* with the list complete, the last query being that of the last channel
C31_Witness ==
    /\ fn[Contender] = "get_temps" /\ cpc[Contender] = "fin"
    /\ ret[Contender] = "OK"
    /\ Len(retlist[Contender]) = NumChans + 1
    /\ wire[Contender] = <<QueryFor(tempchans[NumChans])>>

\* C32: a cycle whose check_files returned False ends there: it is abandoned
\* at the check and nowhere else, its record holds nothing but the abandon
\* (no collector result, no sleep, no write), the worker is in no collector
\* call and has no socket, the step leaves both guards as they were, and the
\* Job thread goes from the abandoned cycle to its wait point.
C32_AbandonedCycle ==
    [][\A w \in Workers :
          /\ (lpc[w] = "chk" /\ lpc'[w] # "chk") =>
                \/ lpc'[w] = "loop" /\ trace'[w] = <<>>
                \/ /\ lpc'[w] = "end" /\ trace'[w] = <<"abandon">>
                   /\ mutex' = mutex
                   /\ cpc'[w] = "none" /\ sock'[w] = "none" /\ wire'[w] = <<>>
          /\ Has(trace'[w], "abandon") =>
                /\ trace'[w] = <<"abandon">>
                /\ lpc'[w] = "end"
                /\ cpc'[w] = "none" /\ sock'[w] = "none" /\ wire'[w] = <<>>
                /\ mutex'[Dev(CollectorOf(w))] # w
          /\ (trace[w] = <<"abandon">> /\ jpc'[w] # jpc[w]) =>
                jpc[w] = "exec" /\ jpc'[w] = "wait"]_vars

\* the second cycle of the temperature Job has been abandoned
C32_Witness ==
    /\ jpc["tw"] = "exec" /\ execs["tw"] = 2
    /\ lpc["tw"] = "end" /\ trace["tw"] = <<"abandon">>

\* C33: when a collector call ends with 'ERR' or 'BSY', no value measured in
\* it has been delivered to a persistence sink: the call has written no point
\* to InfluxDB (the log files are written by the cycle, and only for a
\* returned list).
C33_FailedCallPersistsNothing ==
    \A t \in Threads :
        (cpc[t] \in {"fin", "ret"} /\ ret[t] \in {"ERR", "BSY"}) => influx = <<>>

\* C34: a collector call executes release() on a guard only while that call
\* holds it: whenever a guard becomes unlocked, the thread that held it is
\* the one that executed the release, and release() is never executed on an
\* unlocked guard (no call ends with the RuntimeError of release).
C34_ReleaseOnlyByHolder ==
    [][\A d \in Devs :
          /\ (mutex[d] # "free" /\ mutex'[d] = "free") =>
                cpc'[mutex[d]] # cpc[mutex[d]]
          /\ \A t \in Threads :
                (cpc[t] = "fin" /\ cpc'[t] = "ret" /\ acq[t] # "na"
                    /\ Dev(fn[t]) = d) => mutex[d] = t /\ ret'[t] # "EXC"]_vars

\* C35: once the stop flag of a Job has been set its worker begins no task
\* execution, neither from the wait point nor as its first execution, so none
\* begins after stop() has returned either.
C35_NoExecutionAfterStopSet ==
    [][\A w \in Workers : stopped[w] => execs'[w] = execs[w]]_vars

\* the collector invocations a cycle has made: the results it has taken and
\* the call that is under way
Invocations(w) ==
    Cardinality({i \in 1..Len(trace[w]) : trace[w][i] \in ResultKinds})
        + (IF lpc[w] = "call" THEN 1 ELSE 0)

\* the sleeps a cycle has begun
Sleeps(w) ==
    Cardinality({i \in 1..Len(trace[w]) : trace[w][i] = "sleep"})
        + (IF lpc[w] = "sleep" THEN 1 ELSE 0)

\* the cycle went past check_files into the retry loop
InLoop(w) ==
    lpc[w] \in {"loop", "call", "sleep", "persist"}
        \/ (lpc[w] = "end" /\ trace[w][1] # "abandon")

\* C36: the retry loop of a cycle is bounded: it invokes the collector at
\* least once and at most MAX_RETRIES times, sleeps at most MAX_RETRIES - 1
\* times, every sleep is followed by another invocation, and the loop test is
\* never reached with the retries used up, so the cycle ends after a bounded
\* number of invocations and sleeps.
C36_RetryLoopBounded ==
    \A w \in Workers :
        /\ Invocations(w) <= MAX_RETRIES
        /\ Sleeps(w) <= MAX_RETRIES - 1
        /\ retry_count[w] <= MAX_RETRIES
        /\ lpc[w] \in {"loop", "sleep"} => retry_count[w] < MAX_RETRIES
        /\ (InLoop(w) /\ lpc[w] # "loop") => Invocations(w) >= 1
        /\ lpc[w] = "end" =>
              \A i \in 1..Len(trace[w]) :
                  trace[w][i] = "sleep" =>
                      i < Len(trace[w]) /\ trace[w][i + 1] \in ResultKinds

\* a cycle has used every retry: two busy invocations, each followed by a
\* sleep, and a third invocation that ended the cycle
C36_Witness ==
    /\ lpc["tw"] = "end"
    /\ Invocations("tw") = MAX_RETRIES
    /\ Sleeps("tw") = MAX_RETRIES - 1
    /\ trace["tw"][Len(trace["tw"]) - 1] \in {"ERR", "None"}

\* the ENQ bytes sent since the command of the exchange under way
EnqSent(t) == Cardinality({i \in 1..Len(wire[t]) : wire[t][i] = ENQ})

\* C37: while the data reply of a pressure exchange is read, exactly one ENQ
\* has been sent for the command, in the logger and in the command-line
\* client alike: never none and never two.
C37_OneEnqPerCommand ==
    \A t \in Threads :
        (fn[t] \in PressExchanges \cup {"read_pressure"}
            /\ cpc[t] \in {"rd2", "got2", "crd2", "cgot2"}) => EnqSent(t) = 1

\* the results a cycle has taken from its collector, in order
ResultsOf(tr) == SelectSeq(tr, LAMBDA e : e \in ResultKinds)

\* the events of a cycle up to its decision: the whole trace, or the trace up
\* to the reading that goes to the persistence step
UpToDecision(tr) ==
    IF \E i \in 1..Len(tr) : tr[i] = "OK"
      THEN SubSeq(tr, 1, CHOOSE i \in 1..Len(tr) : tr[i] = "OK")
      ELSE tr

\* the events of the retry loop of worker v (with its own give-up test) when
\* the collector returns the results rs in order, from retry_count = rc
RECURSIVE LoopOn(_, _, _)
LoopOn(v, rs, rc) ==
    IF ~KeepTrying(rc) THEN <<"exit">>
    ELSE IF rs = <<>> THEN <<>>
    ELSE LET r == Head(rs)
             b == Branch(r)
         IN  CASE b = "raise" -> <<r, "raised">>
               [] b = "break" -> <<r, "exit">>
               [] b = "log"   -> <<r>>
               [] b = "retry" ->
                    (IF SleepBeforeRetry(rc + 1) THEN <<r, "sleep">> ELSE <<r>>)
                       \o (IF GiveUp(v, rc + 1, r) THEN <<"giveup">>
                           ELSE LoopOn(v, Tail(rs), rc + 1))

\* C38: the retry loops of logpress and logtemp are equivalent: the events of
\* every finished cycle of either worker (invocations, sleeps, and the
\* decision to persist, to give up or to leave) are the events that the loop
\* of logpress and the loop of logtemp each produce on the results that cycle
\* received, and retry_count never passes MAX_RETRIES, where the two give-up
\* tests differ.
C38_EquivalentRetryLoops ==
    \A w \in Workers :
        /\ retry_count[w] <= MAX_RETRIES
        /\ (lpc[w] = "end" /\ InLoop(w)) =>
              /\ LoopOn("pw", ResultsOf(trace[w]), 0) = UpToDecision(trace[w])
              /\ LoopOn("tw", ResultsOf(trace[w]), 0) = UpToDecision(trace[w])

\* a logtemp cycle has given up with retry_count = MAX_RETRIES, the value at
\* which the test of logtemp (==) and the test of logpress (>=) both hold
C38_Witness ==
    /\ lpc["tw"] = "end"
    /\ retry_count["tw"] = MAX_RETRIES
    /\ trace["tw"][Len(trace["tw"])] = "giveup"
    /\ ResultsOf(trace["tw"]) = <<"BSY", "BSY", "BSY">>
====
